---------------------------- MODULE Spec2Model ----------------------------
(***************************************************************************)
(* Model of fix_tools.py: a script that walks a fixed list of tool source  *)
(* files and rewrites each with four regular-expression substitutions.     *)
(*                                                                         *)
(* A text is a sequence of tokens.  Every literal the script searches for  *)
(* or writes is one token (none of them occurs inside, or straddles, one   *)
(* of the others), and the pieces the character classes of the third       *)
(* pattern distinguish (the key, the two quote characters, the comma,      *)
(* other characters) are tokens of their own.                              *)
(***************************************************************************)
EXTENDS Integers, Sequences, FiniteSets, TLC

VARIABLES fs, idx, tool, content, category, pc, trace

vars == <<fs, idx, tool, content, category, pc, trace>>

---------------------------------------------------------------------------
(* Bounds *)

MaxSegs == 4

---------------------------------------------------------------------------
(* Configuration data of the script *)

tools == <<"ProjectScaffoldingTool.ts", "DatabaseSchemaTool.ts", "APIDocumentationTool.ts">>

categories ==
    [t \in {"ProjectScaffoldingTool.ts", "DatabaseSchemaTool.ts", "APIDocumentationTool.ts"} |->
        CASE t = "ProjectScaffoldingTool.ts" -> "Project Management"
          [] t = "DatabaseSchemaTool.ts" -> "Database"
          [] t = "APIDocumentationTool.ts" -> "Documentation"]

\* categories.get(tool, 'Development')
CategoriesGet(t) == IF t \in DOMAIN categories THEN categories[t] ELSE "Development"

\* f'src/agent/executors/{tool}'
FilePath(t) == <<"src/agent/executors/", t>>

---------------------------------------------------------------------------
(* Tokens *)

ImportOld == "import { ToolExecutor, ToolResult } from"
ImportNew == "import { ToolExecutor, ToolResult, ToolMetadata } from"
MetadataOld == "static metadata = {"
MetadataNew == "public metadata: ToolMetadata = {"
ExecuteOld == "async execute(params: Record<string, any>): Promise<ToolResult>"
ExecuteNew == "async execute(params: any, context: { workspaceRoot: string; outputChannel: any; onProgress?: (message: string) => void }): Promise<ToolResult>"
DescKey == "description: "
SQ == "'"
DQ == "\""
Comma == ","
Backslash == "\\"
Newline == "\n"
CategoryKey == "        category: "

---------------------------------------------------------------------------
(* re.sub *)

\* re.sub(literal, literal, content): every occurrence is replaced
SubLiteral(pattern, repl, text) ==
    [k \in 1..Len(text) |-> IF text[k] = pattern THEN repl ELSE text[k]]

\* ['"]
IsQuote(tok) == tok \in {SQ, DQ}

\* first position at or after k holding a quote, Len(text)+1 if none: the
\* end of the greedy run [^'"]+ started at k
RECURSIVE RunEnd(_, _)
RunEnd(text, k) ==
    IF k > Len(text) THEN k
    ELSE IF IsQuote(text[k]) THEN k
    ELSE RunEnd(text, k + 1)

\* as MatchEnd, with [^'"]* in place of [^'"]+
MatchEndStar(text, k) ==
    IF k + 1 <= Len(text) /\ text[k] = DescKey /\ IsQuote(text[k + 1])
    THEN LET e == RunEnd(text, k + 2)
         IN  IF e + 1 <= Len(text) /\ text[e + 1] = Comma
             THEN e + 1 ELSE 0
    ELSE 0

\* description: ['"][^'"]+['"],   matched at position k: the position of
\* the last token of the match, 0 when there is no match at k
MatchEnd(text, k) ==
    IF k + 1 <= Len(text) /\ text[k] = DescKey /\ IsQuote(text[k + 1])
    THEN LET e == RunEnd(text, k + 2)
         IN  IF e > k + 2 /\ e + 1 <= Len(text) /\ text[e + 1] = Comma
             THEN e + 1 ELSE 0
    ELSE 0

\* the replacement template rf'\1\n        category: \'{category}\','
CategoryTemplate(c) == <<"\\1", "\\n", CategoryKey, "\\'", c, "\\'", Comma>>

\* template escapes: \1 is the group, \n a newline, and an unknown escape
\* of a non-letter such as \' is left alone, backslash included
ExpandEscape(tok, group) ==
    IF tok = "\\1" THEN group
    ELSE IF tok = "\\n" THEN <<Newline>>
    ELSE IF tok = "\\'" THEN <<Backslash, SQ>>
    ELSE <<tok>>

RECURSIVE Expand(_, _)
Expand(template, group) ==
    IF template = <<>> THEN <<>>
    ELSE ExpandEscape(Head(template), group) \o Expand(Tail(template), group)

\* re.sub(pattern 3, template, content) from position k on: leftmost
\* matches, not overlapping, all of them replaced
RECURSIVE SubCategoryFrom(_, _, _)
SubCategoryFrom(text, k, c) ==
    IF k > Len(text) THEN <<>>
    ELSE LET e == MatchEnd(text, k)
         IN  IF e > 0
             THEN Expand(CategoryTemplate(c), SubSeq(text, k, e))
                      \o SubCategoryFrom(text, e + 1, c)
             ELSE <<text[k]>> \o SubCategoryFrom(text, k + 1, c)

\* as FixImportsText, with a pattern loose enough to match its own output
FixImportsTextLoose(text) ==
    [k \in 1..Len(text) |->
        IF text[k] = ImportOld THEN ImportNew
        ELSE IF text[k] = ImportNew
             THEN "import { ToolExecutor, ToolResult, ToolMetadata, ToolMetadata } from"
             ELSE text[k]]

FixImportsText(text) == SubLiteral(ImportOld, ImportNew, text)
FixMetadataText(text) == SubLiteral(MetadataOld, MetadataNew, text)
AddCategoryText(text, c) == SubCategoryFrom(text, 1, c)
FixExecuteText(text) == SubLiteral(ExecuteOld, ExecuteNew, text)

\* the four substitutions in the order of the loop body
Transform(text, c) ==
    FixExecuteText(AddCategoryText(FixMetadataText(FixImportsText(text)), c))

---------------------------------------------------------------------------
(* Input texts *)

DescField == <<DescKey, SQ, "d", SQ, Comma>>

Segments ==
    { <<ImportOld>>, <<ImportNew>>, <<MetadataOld>>, <<ExecuteOld>>,
      DescField, <<DescKey, SQ, SQ, Comma>>, <<DQ>>, <<"x">> }

RECURSIVE TextsOf(_)
TextsOf(n) ==
    IF n = 0 THEN {<<>>}
    ELSE LET P == TextsOf(n - 1)
         IN  P \cup {p \o s : p \in P, s \in Segments}

LegacyModule == <<ImportOld>> \o <<MetadataOld>> \o DescField \o <<ExecuteOld>>

FileTexts == { LegacyModule, <<"x">>, DescField \o DescField }

Identifiers == {tools[k] : k \in 1..Len(tools)} \cup {"OtherTool.ts"}

Paths == {FilePath(t) : t \in Identifiers}

Absent == [exists |-> FALSE, text |-> <<>>]
File(text) == [exists |-> TRUE, text |-> text]

Event(op, arg) == [op |-> op, arg |-> arg]

---------------------------------------------------------------------------
(* The script *)

Init ==
    /\ fs \in {f \in [Paths -> {Absent} \cup {File(t) : t \in FileTexts}] :
                 f[FilePath("OtherTool.ts")] = Absent}
    /\ idx = 0
    /\ tool = ""
    /\ content = <<>>
    /\ category = ""
    /\ pc = "for"
    /\ trace = <<>>

\* for tool in tools: the next element
ForNext ==
    /\ pc = "for"
    /\ idx < Len(tools)
    /\ idx' = idx + 1
    /\ tool' = tools[idx + 1]
    /\ pc' = "exists"
    /\ UNCHANGED <<fs, content, category, trace>>

\* for tool in tools: the list is exhausted
ForEnd ==
    /\ pc = "for"
    /\ idx = Len(tools)
    /\ pc' = "final"
    /\ UNCHANGED <<fs, idx, tool, content, category, trace>>

\* as ExistsCheck, with break in place of continue
ExistsCheckBreak ==
    /\ pc = "exists"
    /\ trace' = Append(trace, Event("exists", FilePath(tool)))
    /\ pc' = IF ~fs[FilePath(tool)].exists THEN "final" ELSE "read"
    /\ UNCHANGED <<fs, idx, tool, content, category>>

\* if not os.path.exists(filepath): continue
ExistsCheck ==
    /\ pc = "exists"
    /\ trace' = Append(trace, Event("exists", FilePath(tool)))
    /\ pc' = IF ~fs[FilePath(tool)].exists THEN "for" ELSE "read"
    /\ UNCHANGED <<fs, idx, tool, content, category>>

\* with open(filepath, 'r', encoding='utf-8') as f: content = f.read()
Read ==
    /\ pc = "read"
    /\ content' = fs[FilePath(tool)].text
    /\ trace' = Append(trace, Event("read", FilePath(tool)))
    /\ pc' = "imports"
    /\ UNCHANGED <<fs, idx, tool, category>>

\* as ReadFail, with the exception caught and the loop continued
ReadFailSwallowed ==
    /\ pc = "read"
    /\ trace' = Append(trace, Event("readError", FilePath(tool)))
    /\ pc' = "for"
    /\ UNCHANGED <<fs, idx, tool, content, category>>

\* open or read raises: nothing catches it
ReadFail ==
    /\ pc = "read"
    /\ trace' = Append(trace, Event("readError", FilePath(tool)))
    /\ pc' = "crashed"
    /\ UNCHANGED <<fs, idx, tool, content, category>>

FixImports ==
    /\ pc = "imports"
    /\ content' = FixImportsText(content)
    /\ pc' = "metadata"
    /\ UNCHANGED <<fs, idx, tool, category, trace>>

FixMetadata ==
    /\ pc = "metadata"
    /\ content' = FixMetadataText(content)
    /\ pc' = "category"
    /\ UNCHANGED <<fs, idx, tool, category, trace>>

AddCategory ==
    /\ pc = "category"
    /\ category' = CategoriesGet(tool)
    /\ content' = AddCategoryText(content, CategoriesGet(tool))
    /\ pc' = "execute"
    /\ UNCHANGED <<fs, idx, tool, trace>>

FixExecute ==
    /\ pc = "execute"
    /\ content' = FixExecuteText(content)
    /\ pc' = "write"
    /\ UNCHANGED <<fs, idx, tool, category, trace>>

\* as Write, with the path of the first tool in place of the current one
WriteFirstPath ==
    /\ pc = "write"
    /\ fs' = [fs EXCEPT ![FilePath(tools[1])] = File(content)]
    /\ trace' = Append(trace, Event("write", FilePath(tool)))
    /\ pc' = "print"
    /\ UNCHANGED <<idx, tool, content, category>>

\* as Write, with unchanged text not written back
WriteIfChanged ==
    /\ pc = "write"
    /\ IF content = fs[FilePath(tool)].text
       THEN UNCHANGED <<fs, trace>>
       ELSE /\ fs' = [fs EXCEPT ![FilePath(tool)] = File(content)]
            /\ trace' = Append(trace, Event("write", FilePath(tool)))
    /\ pc' = "print"
    /\ UNCHANGED <<idx, tool, content, category>>

\* with open(filepath, 'w', encoding='utf-8') as f: f.write(content)
Write ==
    /\ pc = "write"
    /\ fs' = [fs EXCEPT ![FilePath(tool)] = File(content)]
    /\ trace' = Append(trace, Event("write", FilePath(tool)))
    /\ pc' = "print"
    /\ UNCHANGED <<idx, tool, content, category>>

\* open or write raises: the file is as it was (open failed) or holds a
\* prefix of the new text (truncated by open, write cut short)
WriteFail ==
    /\ pc = "write"
    /\ \E n \in -1..Len(content) :
          fs' = IF n = -1 THEN fs
                ELSE [fs EXCEPT ![FilePath(tool)] = File(SubSeq(content, 1, n))]
    /\ trace' = Append(trace, Event("writeError", FilePath(tool)))
    /\ pc' = "crashed"
    /\ UNCHANGED <<idx, tool, content, category>>

\* print(f'Fixed {tool}')
PrintFixed ==
    /\ pc = "print"
    /\ trace' = Append(trace, Event("print", <<"Fixed ", tool>>))
    /\ pc' = "for"
    /\ UNCHANGED <<fs, idx, tool, content, category>>

\* print('All tools fixed!')
PrintAll ==
    /\ pc = "final"
    /\ trace' = Append(trace, Event("print", <<"All tools fixed!">>))
    /\ pc' = "done"
    /\ UNCHANGED <<fs, idx, tool, content, category>>

Next ==
    \/ ForNext
    \/ ForEnd
    \/ ExistsCheck
    \/ Read
    \/ ReadFail
    \/ FixImports
    \/ FixMetadata
    \/ AddCategory
    \/ FixExecute
    \/ Write
    \/ WriteFail
    \/ PrintFixed
    \/ PrintAll

Spec == Init /\ [][Next]_vars

\* the interpreter runs the script to its end: a step that can be taken is taken
FairSpec == Spec /\ WF_vars(Next)

---------------------------------------------------------------------------
(* The rewrite chain on its own: the loop body from the first substitution *)
(* to the last, for any identifier and any text just read                  *)

InitRewrite ==
    /\ tool \in Identifiers
    /\ content \in TextsOf(MaxSegs)
    /\ fs = [p \in Paths |-> IF p = FilePath(tool) THEN File(content) ELSE Absent]
    /\ idx = 0
    /\ category = ""
    /\ pc = "imports"
    /\ trace = <<>>

NextRewrite ==
    \/ FixImports
    \/ FixMetadata
    \/ AddCategory
    \/ FixExecute

SpecRewrite == InitRewrite /\ [][NextRewrite]_vars

---------------------------------------------------------------------------
(* Vocabulary of the properties, stated without the substitution operators *)

HasToken(text, tok) == \E k \in 1..Len(text) : text[k] = tok

CountToken(text, tok) == Cardinality({k \in 1..Len(text) : text[k] = tok})

Contains(text, sub) ==
    \E k \in 1..(Len(text) - Len(sub) + 1) : SubSeq(text, k, k + Len(sub) - 1) = sub

IsPrefix(s, t) == Len(s) <= Len(t) /\ SubSeq(t, 1, Len(s)) = s

\* tokens k..e of text are a description field: the key, a quote, one or
\* more tokens that are not quotes, a quote, a comma
DescFieldAt(text, k, e) ==
    /\ k >= 1 /\ e <= Len(text) /\ e >= k + 4
    /\ text[k] = "description: "
    /\ text[k + 1] \in {"'", "\""}
    /\ \A j \in (k + 2)..(e - 2) : text[j] \notin {"'", "\""}
    /\ text[e - 1] \in {"'", "\""}
    /\ text[e] = ","

HasDescField(text) == \E k, e \in 1..Len(text) : DescFieldAt(text, k, e)

\* the text has none of the forms the migration writes
PreMigration(text) ==
    /\ ~HasToken(text, ImportNew)
    /\ ~HasToken(text, MetadataNew)
    /\ ~HasToken(text, ExecuteNew)
    /\ ~HasToken(text, CategoryKey)

\* the text has all four forms the migration looks for
HasLegacyForms(text) ==
    /\ HasToken(text, ImportOld)
    /\ HasToken(text, MetadataOld)
    /\ HasDescField(text)
    /\ HasToken(text, ExecuteOld)

\* the label the map gives an identifier
LabelOf(t) ==
    CASE t = "ProjectScaffoldingTool.ts" -> "Project Management"
      [] t = "DatabaseSchemaTool.ts" -> "Database"
      [] t = "APIDocumentationTool.ts" -> "Documentation"
      [] OTHER -> "Development"

PathOf(t) == <<"src/agent/executors/", t>>

\* the text of the current identifier's file (in SpecRewrite: the input)
InputText == fs[PathOf(tool)].text

IsError(ev) == ev.op \in {"readError", "writeError"}

FixedSignal(t) == [op |-> "print", arg |-> <<"Fixed ", t>>]
FinalSignal == [op |-> "print", arg |-> <<"All tools fixed!">>]

Prints(tr) == SelectSeq(tr, LAMBDA ev : ev.op = "print")

\* the signals of a run without failure, from position k of the list on
RECURSIVE ExpectedOut(_)
ExpectedOut(k) ==
    IF k > 3 THEN <<FinalSignal>>
    ELSE (IF fs[PathOf(tools[k])].exists THEN <<FixedSignal(tools[k])>> ELSE <<>>)
             \o ExpectedOut(k + 1)

\* the accesses and signals of a run without failure
RECURSIVE ExpectedTrace(_)
ExpectedTrace(k) ==
    IF k > 3 THEN <<FinalSignal>>
    ELSE LET p == PathOf(tools[k])
         IN  <<[op |-> "exists", arg |-> p]>>
             \o (IF fs[p].exists
                 THEN <<[op |-> "read", arg |-> p], [op |-> "write", arg |-> p],
                        FixedSignal(tools[k])>>
                 ELSE <<>>)
             \o ExpectedTrace(k + 1)

\* a failed access counted as the access it attempted
Attempted(tr) ==
    [k \in 1..Len(tr) |->
        IF tr[k].op = "readError" THEN [op |-> "read", arg |-> tr[k].arg]
        ELSE IF tr[k].op = "writeError" THEN [op |-> "write", arg |-> tr[k].arg]
        ELSE tr[k]]

---------------------------------------------------------------------------
(* C1: for every pre-migration input text and every label, the four rules  *)
(* applied to their own output give that output again: once the chain has  *)
(* run, a second run of it changes nothing.                                *)
C1_Idempotent ==
    (pc = "write" /\ PreMigration(InputText))
        => Transform(content, LabelOf(tool)) = content

(* C2: for a legacy text with the two-symbol import, the static metadata   *)
(* declaration, a description field and the one-parameter signature, the   *)
(* chain's output has the three-symbol import, the public typed metadata   *)
(* declaration, the two-parameter signature and, right after the           *)
(* description field, the field category: 'c', in plain single quotes;     *)
(* no legacy import, declaration or signature remains.                     *)
C2_FullMigration ==
    (pc = "write" /\ PreMigration(InputText) /\ HasLegacyForms(InputText))
        => /\ HasToken(content, ImportNew)
           /\ HasToken(content, MetadataNew)
           /\ HasToken(content, ExecuteNew)
           /\ \E k, e \in 1..Len(content) :
                 /\ DescFieldAt(content, k, e)
                 /\ SubSeq(content, e + 1, e + 6)
                        = <<"\n", "        category: ", "'", LabelOf(tool), "'", ",">>
           /\ ~HasToken(content, ImportOld)
           /\ ~HasToken(content, MetadataOld)
           /\ ~HasToken(content, ExecuteOld)

C5_InjectOnce ==
    [][(/\ pc = "category"
        /\ PreMigration(InputText)
        /\ CountToken(InputText, MetadataOld) = 1
        /\ HasDescField(content))
          => CountToken(content', "        category: ")
                 = CountToken(content, "        category: ") + 1]_vars

(* C3: when no read or write fails the run ends; at its end the signals   *)
(* are 'Fixed t' for exactly the identifiers whose file exists, in list    *)
(* order, then 'All tools fixed!' once; the final signal is never followed *)
(* by another event; an absent file is never read, written or created.     *)
C3_BatchResilience ==
    /\ [](pc = "done" => Prints(trace) = ExpectedOut(1))
    /\ [](\A k \in 1..Len(trace) : trace[k] = FinalSignal => k = Len(trace))
    /\ [](\A t \in {"ProjectScaffoldingTool.ts", "DatabaseSchemaTool.ts",
                    "APIDocumentationTool.ts", "OtherTool.ts"} :
             ~fs[PathOf(t)].exists =>
                 \A k \in 1..Len(trace) :
                     trace[k].arg = PathOf(t) => trace[k].op = "exists")
    /\ [][\A p \in DOMAIN fs : fs'[p].exists = fs[p].exists]_vars
    /\ (<>(pc = "done") \/ <>(pc = "crashed"))

C3_Witness ==
    /\ pc = "done"
    /\ ~fs[PathOf("DatabaseSchemaTool.ts")].exists
    /\ fs[PathOf("ProjectScaffoldingTool.ts")].exists
    /\ fs[PathOf("APIDocumentationTool.ts")].exists
    /\ Prints(trace) = <<FixedSignal("ProjectScaffoldingTool.ts"),
                         FixedSignal("APIDocumentationTool.ts"), FinalSignal>>

(* C6: a failed read or write is the last event of the run: the run is     *)
(* stopped, nothing follows it (no access, no 'Fixed' signal, no final     *)
(* signal, no retry), no 'Fixed' signal was given for the failing          *)
(* identifier, and the failing step leaves the files of the other          *)
(* identifiers, rewritten or not, as they are.                             *)
C6_FatalHalts ==
    /\ [](\A k \in 1..Len(trace) :
             IsError(trace[k]) =>
                 /\ k = Len(trace)
                 /\ pc = "crashed"
                 /\ \A j \in 1..Len(trace) :
                       /\ trace[j] # FinalSignal
                       /\ trace[j] # FixedSignal(trace[k].arg[2]))
    /\ [](pc = "crashed" => Len(trace) > 0 /\ IsError(trace[Len(trace)]))
    /\ [][pc # "crashed"]_vars
    /\ [][pc' = "crashed" =>
             \A p \in DOMAIN fs : p # PathOf(tool) => fs'[p] = fs[p]]_vars

C6_Witness ==
    /\ pc = "crashed"
    /\ idx = 2
    /\ trace[Len(trace)] = [op |-> "writeError", arg |-> PathOf("DatabaseSchemaTool.ts")]
    /\ \E k \in 1..Len(trace) :
          trace[k] = [op |-> "write", arg |-> PathOf("ProjectScaffoldingTool.ts")]
    /\ fs[PathOf("ProjectScaffoldingTool.ts")].text
           = Transform(LegacyModule, "Project Management")
    /\ fs[PathOf("APIDocumentationTool.ts")].exists

(* C7: every step leaves the file of every identifier other than the       *)
(* current one unchanged; every file access of a step is at the current    *)
(* identifier's path; and a write stores the chain's result on the file's  *)
(* own prior text and the identifier's own label.                          *)
C7_NoLeakage ==
    [][/\ \A p \in DOMAIN fs : p # PathOf(tool) => fs'[p] = fs[p]
       /\ (trace' # trace /\ trace'[Len(trace')].op # "print")
             => trace'[Len(trace')].arg = PathOf(tool)
       /\ (trace' # trace /\ trace'[Len(trace')].op = "write")
             => fs'[PathOf(tool)]
                    = [exists |-> TRUE,
                       text |-> Transform(fs[PathOf(tool)].text, LabelOf(tool))]]_vars

C7_Witness ==
    /\ pc = "print"
    /\ idx = 2
    /\ fs[PathOf("ProjectScaffoldingTool.ts")].text = Transform(<<"x">>, "Project Management")
    /\ fs[PathOf("DatabaseSchemaTool.ts")].text = Transform(LegacyModule, "Database")
    /\ fs[PathOf("APIDocumentationTool.ts")].text = LegacyModule

(* C8: a rule whose trigger pattern does not occur in its input text       *)
(* leaves the text as it is and hands it to the next rule; a text with     *)
(* none of the four triggers leaves the chain unchanged.                   *)
C8_RuleIsolation ==
    /\ [][(pc = "imports" /\ ~HasToken(content, ImportOld))
             => (content' = content /\ pc' = "metadata")]_vars
    /\ [][(pc = "metadata" /\ ~HasToken(content, MetadataOld))
             => (content' = content /\ pc' = "category")]_vars
    /\ [][(pc = "category" /\ ~HasDescField(content))
             => (content' = content /\ pc' = "execute")]_vars
    /\ [][(pc = "execute" /\ ~HasToken(content, ExecuteOld))
             => (content' = content /\ pc' = "write")]_vars
    /\ []((/\ pc = "write"
           /\ ~HasToken(InputText, ImportOld)
           /\ ~HasToken(InputText, MetadataOld)
           /\ ~HasDescField(InputText)
           /\ ~HasToken(InputText, ExecuteOld))
             => content = InputText)

C8_Witness ==
    /\ pc = "write"
    /\ content = InputText
    /\ Contains(InputText, <<"description: ", "'", "'", ",">>)
    /\ HasToken(InputText, ImportNew)
    /\ ~HasDescField(InputText)

(* C9: the output of the import rule, of the metadata rule and of the      *)
(* signature rule no longer has that rule's trigger, so the rule applied   *)
(* to its own output changes nothing; a migrated form already in the text  *)
(* stays where it is.                                                      *)
C9_RuleIdempotent ==
    /\ [][pc = "imports" =>
             /\ ~HasToken(content', ImportOld)
             /\ FixImportsText(content') = content'
             /\ Len(content') = Len(content)
             /\ \A k \in 1..Len(content) :
                   content[k] = ImportNew => content'[k] = ImportNew]_vars
    /\ [][pc = "metadata" =>
             /\ ~HasToken(content', MetadataOld)
             /\ FixMetadataText(content') = content'
             /\ Len(content') = Len(content)
             /\ \A k \in 1..Len(content) :
                   content[k] = MetadataNew => content'[k] = MetadataNew]_vars
    /\ [][pc = "execute" =>
             /\ ~HasToken(content', ExecuteOld)
             /\ FixExecuteText(content') = content'
             /\ Len(content') = Len(content)
             /\ \A k \in 1..Len(content) :
                   content[k] = ExecuteNew => content'[k] = ExecuteNew]_vars

C9_Witness ==
    /\ pc = "write"
    /\ HasToken(InputText, ImportOld)
    /\ HasToken(InputText, ImportNew)
    /\ HasToken(InputText, MetadataOld)
    /\ HasToken(InputText, ExecuteOld)
    /\ CountToken(content, ImportNew) = 2
    /\ HasToken(content, MetadataNew)
    /\ HasToken(content, ExecuteNew)

(* C10: the accesses and signals of a run are, in this order and for each  *)
(* identifier in list order: the existence check and, when the file        *)
(* exists, one read, one write of the whole text and the 'Fixed' signal;   *)
(* then the final signal.  A file that exists is written and reported      *)
(* also when the text written equals the text read.                        *)
C10_Lifecycle ==
    /\ IsPrefix(Attempted(trace), ExpectedTrace(1))
    /\ pc = "done" => trace = ExpectedTrace(1)
    /\ pc = "print" => fs[PathOf(tool)] = [exists |-> TRUE, text |-> content]

C10_Witness ==
    /\ pc = "done"
    /\ fs[PathOf("ProjectScaffoldingTool.ts")].text = <<"x">>
    /\ fs[PathOf("DatabaseSchemaTool.ts")].text = Transform(LegacyModule, "Database")
    /\ Len(trace) = 10
    /\ trace[3] = [op |-> "write", arg |-> PathOf("ProjectScaffoldingTool.ts")]
    /\ trace[4] = FixedSignal("ProjectScaffoldingTool.ts")

===========================================================================
